---- MODULE Spec2Model ----
(***************************************************************************)
(* Model of stereoglue::local_optimization::NestedRANSACOptimizer          *)
(* (include/local_optimization/nested_ransac_optimizer.h) and of the       *)
(* defaults of include/settings.h.                                         *)
(*                                                                         *)
(* One call of run() is followed step by step: the prologue (initial       *)
(* rescoring), the head of the inner loop (sample size, break, sampling),  *)
(* the non-minimal estimation and the scoring of each estimated model.     *)
(* The sampler, the estimator and the scoring object are collaborators     *)
(* whose code is outside the modelled files; what they return is chosen    *)
(* nondeterministically, the scoring being a function of the model for     *)
(* the duration of one call.                                               *)
(***************************************************************************)
EXTENDS Integers, Sequences, FiniteSets, TLC

\* ------------------------------------------------------------------ bounds
\* Number of source rows of the data the scoring runs over.
NumRows == 3
\* Number of destination candidates of a source row (multi-match).
NumDst == 1
\* Number of distinct models the estimator can return during one call.
NumModels == 3
\* Largest aggregate quality of a score.
MaxQuality == 1
\* Largest number of models one non-minimal estimation adds.
MaxNewModels == 1
\* run() is explored for maxIterations up to this value.
MaxIter == 2
\* Largest value given to setSampleSizeMultiplier.
MaxMultiplier == 1
\* Largest minimal / non-minimal sample size of an estimator.
MaxSampleSize == 2
\* Largest source row of an entry the caller leaves in estimatedInliers_.
MaxCallerRow == 1
\* Width of size_t in the model (64 in the program; only the wrap-around of
\* 0 - 1 matters, every other value stays far below the modulus).
SizeBits == 8

SizeMod == 2 ^ SizeBits

\* --------------------------------------------------------------- constants
DefaultMaxIterations == 50
DefaultSampleSizeMultiplier == 7

\* Mutant of NestedRANSACOptimizerCtor: the two initializers are swapped.
NestedRANSACOptimizerCtorSwapped ==
    [maxIterations |-> DefaultSampleSizeMultiplier,
     sampleSizeMultiplier |-> DefaultMaxIterations]

\* NestedRANSACOptimizer(): maxIterations(50), sampleSizeMultiplier(7)
NestedRANSACOptimizerCtor ==
    [maxIterations |-> DefaultMaxIterations,
     sampleSizeMultiplier |-> DefaultSampleSizeMultiplier]

\* struct LocalOptimizationSettings
LocalOptimizationSettings ==
    [maxIterations |-> 50, sampleSizeMultiplier |-> 7]

\* struct RANSACSettings
RANSACSettings ==
    [minIterations |-> 1000,
     maxIterations |-> 5000,
     coreNumber |-> 4,
     scoring |-> "MAGSAC",
     sampler |-> "Uniform",
     localOptimization |-> "NestedRANSAC",
     finalOptimization |-> "IRLS",
     terminationCriterion |-> "RANSAC",
     localOptimizationSettings |-> LocalOptimizationSettings,
     finalOptimizationSettings |-> LocalOptimizationSettings]

\* ------------------------------------------------------------------ helpers
Rows == 1..NumRows
Models == 1..NumModels
Variants == {"multi", "single"}

\* size_t arithmetic
SubSize(a, b) == (a - b + SizeMod) % SizeMod
MulSize(a, b) == (a * b) % SizeMod

\* The estimators: sampleSize() <= nonMinimalSampleSize()
Estimators ==
    {[sampleSize |-> s, nonMinimalSampleSize |-> n] :
        s \in 1..MaxSampleSize, n \in 1..MaxSampleSize} \
    {[sampleSize |-> s, nonMinimalSampleSize |-> n] :
        s \in 2..MaxSampleSize, n \in 1..(MaxSampleSize - 1)}

\* scoring::Score: aggregate quality and inlier count; the invalid score is
\* below every valid one.
InvalidScore == [value |-> -1, inlierNumber |-> 0]

\* Score::operator> : by quality, ties by inlier count
ScoreGreater(a, b) ==
    \/ a.value > b.value
    \/ a.value = b.value /\ a.inlierNumber > b.inlierNumber

\* An entry of an inlier list: (source, destination) in the multi-match
\* variant, the row index in the single-match variant.
Entry(v, r, d) == IF v = "multi" THEN <<r, d>> ELSE <<r>>
Src(e) == e[1]

DstChoices(v) == IF v = "multi" THEN 1..NumDst ELSE {1}

\* The inlier list a scoring pass appends: rows in increasing order, at most
\* one destination per row (0: the row is no inlier).
RECURSIVE InlierListFrom(_, _, _)
InlierListFrom(v, f, r) ==
    IF r > NumRows THEN <<>>
    ELSE (IF f[r] = 0 THEN <<>> ELSE <<Entry(v, r, f[r])>>)
         \o InlierListFrom(v, f, r + 1)

InlierLists(v) ==
    {InlierListFrom(v, f, 1) : f \in [Rows -> {0} \cup DstChoices(v)]}

ScoringResults(v) ==
    {[score |-> [value |-> q, inlierNumber |-> Len(l)], inliers |-> l] :
        q \in 0..MaxQuality, l \in InlierLists(v)}

ScoringResultsMulti == ScoringResults("multi")
ScoringResultsSingle == ScoringResults("single")

NoResult == [score |-> InvalidScore, inliers |-> <<>>, unscored |-> TRUE]

\* What the caller may have left in the output list estimatedInliers_.
CallerLists(v) ==
    {<<>>} \cup {<<Entry(v, r, d)>> : r \in 1..MaxCallerRow, d \in DstChoices(v)}

\* The incoming inlier list kInliers_: run() never reads it, so one value
\* stands for all.
IncomingLists(v) == {<<>>}

\* The incoming model kModel_: the models are labels, the incoming one is
\* the first and the others are those the estimator returns.
IncomingModel == 1

\* The incoming score kScore_ (never read by run()).
IncomingScore(ki) == [value |-> MaxQuality, inlierNumber |-> Len(ki)]

\* Sequences over S of length at most n
RECURSIVE SeqsUpTo(_, _)
SeqsUpTo(S, n) ==
    IF n = 0 THEN {<<>>}
    ELSE LET shorter == SeqsUpTo(S, n - 1)
         IN shorter \cup {Append(s, x) : s \in {t \in shorter : Len(t) = n - 1}, x \in S}

NewModelLists == SeqsUpTo(Models, MaxNewModels)

\* ------------------------------------------------------------------- state
VARIABLES
    maxIterations,            \* NestedRANSACOptimizer::maxIterations
    sampleSizeMultiplier,     \* NestedRANSACOptimizer::sampleSizeMultiplier
    setterCalled,             \* a setter has run since construction
    pc,                       \* position of the call of run()
    variant,                  \* which overload of run() is executing
    estimator,                \* kEstimator_
    kModel, kScore, kInliers, \* the incoming model, score and inliers
    callerInliers,            \* content of estimatedInliers_ on entry
    estimatedModel, estimatedScore, estimatedInliers,
    kNonMinimalSampleSize, currentSampleSize, iteration,
    currentlyEstimatedModels, \* the models of the current iteration
    modelIdx,                 \* position of the range-for over the models
    currentInliers,
    currentSample,            \* positions of estimatedInliers_ sampled
    samplerRange,             \* argument of the last sampler.initialize
    scoringTable,             \* what kScoring_->score returned, per model
    nDraws,                   \* calls of sampler.sample in this call
    nEstimations,             \* calls of estimateModelNonminimal
    nFailures,                \* calls of estimateModelNonminimal that failed
    nAlloc, nFree             \* new[] and delete[] of currentSample

vars == <<maxIterations, sampleSizeMultiplier, setterCalled, pc, variant,
          estimator, kModel, kScore, kInliers, callerInliers,
          estimatedModel, estimatedScore, estimatedInliers,
          kNonMinimalSampleSize, currentSampleSize, iteration,
          currentlyEstimatedModels, modelIdx, currentInliers, currentSample,
          samplerRange, scoringTable, nDraws, nEstimations, nFailures, nAlloc,
          nFree>>

objectVars == <<maxIterations, sampleSizeMultiplier, setterCalled>>
inputVars == <<variant, estimator, kModel, kScore, kInliers, callerInliers,
               kNonMinimalSampleSize>>
outputVars == <<estimatedModel, estimatedScore, estimatedInliers>>

\* The state of the locals and outputs when no call is in progress.
NoCall ==
    /\ pc = "idle"
    /\ variant = "multi"
    /\ estimator = [sampleSize |-> 1, nonMinimalSampleSize |-> 1]
    /\ kModel = 1
    /\ kScore = InvalidScore
    /\ kInliers = <<>>
    /\ callerInliers = <<>>
    /\ estimatedModel = 1
    /\ estimatedScore = InvalidScore
    /\ estimatedInliers = <<>>
    /\ kNonMinimalSampleSize = 0
    /\ currentSampleSize = 0
    /\ iteration = 0
    /\ currentlyEstimatedModels = <<>>
    /\ modelIdx = 0
    /\ currentInliers = <<>>
    /\ currentSample = {}
    /\ samplerRange = 0
    /\ scoringTable = [m \in Models |-> NoResult]
    /\ nDraws = 0
    /\ nEstimations = 0
    /\ nFailures = 0
    /\ nAlloc = 0
    /\ nFree = 0

Init ==
    /\ maxIterations = NestedRANSACOptimizerCtor.maxIterations
    /\ sampleSizeMultiplier = NestedRANSACOptimizerCtor.sampleSizeMultiplier
    /\ setterCalled = FALSE
    /\ NoCall

\* ----------------------------------------------------------------- setters
runVars == <<pc, variant, estimator, kModel, kScore, kInliers, callerInliers,
             estimatedModel, estimatedScore, estimatedInliers,
             kNonMinimalSampleSize, currentSampleSize, iteration,
             currentlyEstimatedModels, modelIdx, currentInliers,
             currentSample, samplerRange, scoringTable, nDraws,
             nEstimations, nFailures, nAlloc, nFree>>

setMaxIterations(maxIterations_) ==
    /\ pc = "idle"
    /\ maxIterations' = maxIterations_
    /\ setterCalled' = TRUE
    /\ UNCHANGED <<sampleSizeMultiplier, runVars>>

setSampleSizeMultiplier(sampleSizeMultiplier_) ==
    /\ pc = "idle"
    /\ sampleSizeMultiplier' = sampleSizeMultiplier_
    /\ setterCalled' = TRUE
    /\ UNCHANGED <<maxIterations, runVars>>

\* ------------------------------------------------------------ collaborators
\* kScoring_->score(..., model, ..., inliers): the results the call can
\* return for model m; the same model scores the same within one call.
ScoringOutcomes(m) ==
    IF scoringTable[m] # NoResult THEN {scoringTable[m]}
    ELSE IF variant = "multi" THEN ScoringResultsMulti ELSE ScoringResultsSingle

\* sampler.sample(pool, k, out) returns false when k > pool
SamplerFails(pool, k) == k > pool

\* the samples sampler.sample(pool, k, out) can emit: k distinct positions
SamplerDraws(pool, k) ==
    {S \in SUBSET (0..(pool - 1)) : Cardinality(S) = k}

\* ------------------------------------------------------------------- run()
\* sampleSizeMultiplier * nonMinimalSampleSize() (multi-match),
\* sampleSizeMultiplier * sampleSize() (single-match)
NonMinimalSampleSizeOf(v, est, mult) ==
    IF v = "multi" THEN MulSize(mult, est.nonMinimalSampleSize)
    ELSE MulSize(mult, est.sampleSize)

\* the size below which the inner loop breaks
SampleSizeFloor(v, est) ==
    IF v = "multi" THEN est.nonMinimalSampleSize ELSE est.sampleSize

\* Mutant of ComputeSampleSize: the size of the inlier set, not size - 1.
ComputeSampleSizeNoSub(size, cap) == IF size >= cap THEN cap ELSE size

\* currentSampleSize = size - 1, capped by kNonMinimalSampleSize
ComputeSampleSize(size, cap) ==
    LET c == SubSize(size, 1) IN IF c >= cap THEN cap ELSE c

\* the argument of sampler.initialize after (re)scoring
SamplerInitArg(inl) == SubSize(Len(inl), 1)

\* delete[] currentSample (single-match), nothing to release (multi-match)
CleanUp == nFree' = IF variant = "single" THEN nFree + 1 ELSE nFree

\* Lines 93-125 / 220-244: the prologue of run() up to the loop.
RunBegin(v, est, km, ks, ki, ci) ==
    /\ pc = "idle"
    /\ maxIterations <= MaxIter
    /\ variant' = v
    /\ estimator' = est
    /\ kModel' = km
    /\ kScore' = ks
    /\ kInliers' = ki
    /\ callerInliers' = ci
    /\ estimatedModel' = km
    /\ kNonMinimalSampleSize' = NonMinimalSampleSizeOf(v, est, sampleSizeMultiplier)
    /\ nAlloc' = IF v = "single" THEN 1 ELSE 0
    /\ nFree' = 0
    /\ \E res \in ScoringResults(v) :
          /\ scoringTable' = [m \in Models |-> IF m = km THEN res ELSE NoResult]
          /\ estimatedScore' = res.score
          /\ estimatedInliers' = ci \o res.inliers
    /\ samplerRange' = SamplerInitArg(estimatedInliers')
    /\ iteration' = 0
    /\ pc' = "loop"
    /\ UNCHANGED <<objectVars, currentSampleSize, currentlyEstimatedModels,
                   modelIdx, currentInliers, currentSample, nDraws,
                   nEstimations, nFailures>>

\* Mutant of NextIteration: the loop counter is not advanced.
NextIterationNoIncrement ==
    /\ iteration' = iteration
    /\ pc' = "loop"

\* the end of one iteration of the for loop
NextIteration ==
    /\ iteration' = iteration + 1
    /\ pc' = "loop"

\* for (...; iteration < maxIterations; ...) is false: leave the loop.
LoopExit ==
    /\ pc = "loop"
    /\ ~(iteration < maxIterations)
    /\ CleanUp
    /\ pc' = "done"
    /\ UNCHANGED <<objectVars, inputVars, outputVars, currentSampleSize,
                   iteration, currentlyEstimatedModels, modelIdx,
                   currentInliers, currentSample, samplerRange, scoringTable,
                   nDraws, nEstimations, nFailures, nAlloc>>

\* Lines 130-137 / 249-256: the sample size is too small, break.
BreakTooSmall ==
    /\ pc = "loop"
    /\ iteration < maxIterations
    /\ LET css == ComputeSampleSize(Len(estimatedInliers), kNonMinimalSampleSize)
       IN /\ css < SampleSizeFloor(variant, estimator)
          /\ currentSampleSize' = css
    /\ CleanUp
    /\ pc' = "done"
    /\ UNCHANGED <<objectVars, inputVars, outputVars, iteration,
                   currentlyEstimatedModels, modelIdx, currentInliers,
                   currentSample, samplerRange, scoringTable, nDraws,
                   nEstimations, nFailures, nAlloc>>

\* Lines 130-151 / 249-270: the sampler returns false, continue.
SampleFail ==
    /\ pc = "loop"
    /\ iteration < maxIterations
    /\ LET css == ComputeSampleSize(Len(estimatedInliers), kNonMinimalSampleSize)
       IN /\ ~(css < SampleSizeFloor(variant, estimator))
          /\ css # Len(estimatedInliers)
          /\ SamplerFails(Len(estimatedInliers), css)
          /\ currentSampleSize' = css
    /\ nDraws' = nDraws + 1
    /\ NextIteration
    /\ UNCHANGED <<objectVars, inputVars, outputVars,
                   currentlyEstimatedModels, modelIdx, currentInliers,
                   currentSample, samplerRange, scoringTable, nEstimations,
                   nFailures, nAlloc, nFree>>

\* Lines 130-156 / 249-275: all inliers are copied, or a sample is drawn.
Sample ==
    /\ pc = "loop"
    /\ iteration < maxIterations
    /\ LET css == ComputeSampleSize(Len(estimatedInliers), kNonMinimalSampleSize)
       IN /\ ~(css < SampleSizeFloor(variant, estimator))
          /\ currentSampleSize' = css
          /\ IF css = Len(estimatedInliers)
             THEN /\ currentSample' = 0..(css - 1)
                  /\ nDraws' = nDraws
             ELSE /\ ~SamplerFails(Len(estimatedInliers), css)
                  /\ currentSample' \in SamplerDraws(Len(estimatedInliers), css)
                  /\ nDraws' = nDraws + 1
    /\ pc' = "estimate"
    /\ UNCHANGED <<objectVars, inputVars, outputVars, iteration,
                   currentlyEstimatedModels, modelIdx, currentInliers,
                   samplerRange, scoringTable, nEstimations, nFailures, nAlloc,
                   nFree>>

\* currentlyEstimatedModels.clear(), and in the multi-match variant
\* currentlyEstimatedModels.emplace_back(estimatedModel_)
ModelsBeforeEstimation ==
    IF variant = "multi" THEN <<estimatedModel>> ELSE <<>>

\* Mutant of ReturnsOnEstimatorFailure: both variants return.
ReturnsOnEstimatorFailureAlways(v) == TRUE

\* What follows a failed estimation: return (multi-match, line 180) or
\* continue (single-match, line 287).
ReturnsOnEstimatorFailure(v) == v = "multi"

\* Lines 174-180 / 281-287: estimateModelNonminimal returns false.
EstimateFail ==
    /\ pc = "estimate"
    /\ nEstimations' = nEstimations + 1
    /\ nFailures' = nFailures + 1
    /\ currentlyEstimatedModels' = ModelsBeforeEstimation
    /\ IF ReturnsOnEstimatorFailure(variant)
       THEN /\ pc' = "done"
            /\ iteration' = iteration
       ELSE NextIteration
    /\ UNCHANGED <<objectVars, inputVars, outputVars, currentSampleSize,
                   modelIdx, currentInliers, currentSample, samplerRange,
                   scoringTable, nDraws, nAlloc, nFree>>

\* Lines 158-183 / 277-290: estimateModelNonminimal fills the model list.
EstimateOk ==
    /\ pc = "estimate"
    /\ nEstimations' = nEstimations + 1
    /\ \E new \in NewModelLists :
          currentlyEstimatedModels' \in {ModelsBeforeEstimation \o new, new}
    /\ IF currentlyEstimatedModels' = <<>>
       THEN /\ NextIteration
            /\ modelIdx' = modelIdx
       ELSE /\ pc' = "score"
            /\ modelIdx' = 1
            /\ iteration' = iteration
    /\ UNCHANGED <<objectVars, inputVars, outputVars, currentSampleSize,
                   currentInliers, currentSample, samplerRange, scoringTable,
                   nDraws, nFailures, nAlloc, nFree>>

\* Mutant of IsBetter: the comparison is >= and a tie replaces the model.
IsBetterOrEqual(currentScore, bestScore) == ~ScoreGreater(bestScore, currentScore)

\* if (currentScore > estimatedScore_)
IsBetter(currentScore, bestScore) == ScoreGreater(currentScore, bestScore)

\* Lines 183-205 / 290-305: one pass of the range-for over the models.
ScoreModel ==
    /\ pc = "score"
    /\ LET model == currentlyEstimatedModels[modelIdx]
       IN \E res \in ScoringOutcomes(model) :
            /\ scoringTable' = [scoringTable EXCEPT ![model] = res]
            /\ IF IsBetter(res.score, estimatedScore)
               THEN /\ estimatedModel' = model
                    /\ estimatedScore' = res.score
                    /\ estimatedInliers' = <<>> \o res.inliers
                    /\ currentInliers' = estimatedInliers
                    /\ samplerRange' = SamplerInitArg(estimatedInliers')
               ELSE /\ currentInliers' = <<>> \o res.inliers
                    /\ UNCHANGED <<outputVars, samplerRange>>
    /\ IF modelIdx < Len(currentlyEstimatedModels)
       THEN /\ modelIdx' = modelIdx + 1
            /\ pc' = "score"
            /\ iteration' = iteration
       ELSE /\ modelIdx' = modelIdx
            /\ NextIteration
    /\ UNCHANGED <<objectVars, inputVars, currentSampleSize,
                   currentlyEstimatedModels, currentSample, nDraws,
                   nEstimations, nFailures, nAlloc, nFree>>

\* run() has returned; the locals are gone and the object can be used again.
Return ==
    /\ pc = "done"
    /\ pc' = "idle"
    /\ variant' = "multi"
    /\ estimator' = [sampleSize |-> 1, nonMinimalSampleSize |-> 1]
    /\ kModel' = 1
    /\ kScore' = InvalidScore
    /\ kInliers' = <<>>
    /\ callerInliers' = <<>>
    /\ estimatedModel' = 1
    /\ estimatedScore' = InvalidScore
    /\ estimatedInliers' = <<>>
    /\ kNonMinimalSampleSize' = 0
    /\ currentSampleSize' = 0
    /\ iteration' = 0
    /\ currentlyEstimatedModels' = <<>>
    /\ modelIdx' = 0
    /\ currentInliers' = <<>>
    /\ currentSample' = {}
    /\ samplerRange' = 0
    /\ scoringTable' = [m \in Models |-> NoResult]
    /\ nDraws' = 0
    /\ nEstimations' = 0
    /\ nFailures' = 0
    /\ nAlloc' = 0
    /\ nFree' = 0
    /\ UNCHANGED objectVars

RunStep ==
    \/ LoopExit
    \/ BreakTooSmall
    \/ SampleFail
    \/ Sample
    \/ EstimateFail
    \/ EstimateOk
    \/ ScoreModel

Next ==
    \/ \E n \in 0..MaxIter : setMaxIterations(n)
    \/ \E n \in 0..MaxMultiplier : setSampleSizeMultiplier(n)
    \/ \E v \in Variants, est \in Estimators :
         \E ki \in IncomingLists(v), ci \in CallerLists(v) :
            RunBegin(v, est, IncomingModel, IncomingScore(ki), ki, ci)
    \/ LoopExit
    \/ BreakTooSmall
    \/ SampleFail
    \/ Sample
    \/ EstimateFail
    \/ EstimateOk
    \/ ScoreModel
    \/ Return

Spec == Init /\ [][Next]_vars

\* run() is sequential code: a call that has started keeps executing.
LiveSpec == Spec /\ WF_vars(RunStep)

\* ------------------------------------------------------------------ claims
Running == pc \in {"loop", "estimate", "score"}
Scored(m) == scoringTable[m] # NoResult
ScoredModels == {m \in Models : Scored(m)}
Min(a, b) == IF a <= b THEN a ELSE b

\* The list the initial scoring call leaves in estimatedInliers_.
RescoredInliers == callerInliers \o scoringTable[kModel].inliers

\* C1: after the prologue the best score never decreases from one step of
\* run() to the next, the stored model changes only together with a strictly
\* greater score, and the stored score is at every step (so also at the
\* return) the maximum of the scores computed so far in the call: that of
\* the incoming model and those of the candidates scored.
C1_ScoreMonotone ==
    [][(Running /\ pc' # "idle") =>
          /\ ~ScoreGreater(estimatedScore, estimatedScore')
          /\ (estimatedModel' # estimatedModel =>
                 ScoreGreater(estimatedScore', estimatedScore))
          /\ \E m \in ScoredModels' : scoringTable'[m].score = estimatedScore'
          /\ \A m \in ScoredModels' :
                 ~ScoreGreater(scoringTable'[m].score, estimatedScore')]_vars

\* C1 witness: a run has returned a candidate that beat the incoming model.
C1_Witness ==
    /\ pc = "done"
    /\ estimatedModel # kModel
    /\ ScoreGreater(estimatedScore, scoringTable[kModel].score)
    /\ Cardinality(ScoredModels) = NumModels

\* The rescored inlier set is empty or leaves less than the floor to draw.
TooSmall(list) ==
    Len(list) = 0 \/ Len(list) - 1 < SampleSizeFloor(variant, estimator)

C3_ContinueAfterFailure ==
    [][(pc = "estimate" /\ nFailures' = nFailures + 1
            /\ iteration + 1 < maxIterations) =>
          /\ pc' = "loop"
          /\ iteration' = iteration + 1
          /\ UNCHANGED outputVars]_vars

\* C4 (as stated): whenever an iteration has drawn its sample, in either
\* variant, the number of inliers drawn is min(sampleSizeMultiplier x
\* nonMinimalSampleSize(), |inliers| - 1) over the current best inlier set.
C4_SampleSize ==
    pc = "estimate" =>
        /\ currentSampleSize =
              Min(sampleSizeMultiplier * estimator.nonMinimalSampleSize,
                  Len(estimatedInliers) - 1)
        /\ Cardinality(currentSample) = currentSampleSize

\* The sample size the head of the loop computes, |inliers| - 1 being taken
\* in size_t.
LoopSampleSize ==
    IF Len(estimatedInliers) = 0 THEN kNonMinimalSampleSize
    ELSE Min(kNonMinimalSampleSize, Len(estimatedInliers) - 1)

\* The loop is at its head and about to run one more iteration.
AtIteration == pc = "loop" /\ iteration < maxIterations

\* What "the loop stops" means: the next step returns, nothing having been
\* drawn, estimated or scored and the outputs being those before the step.
StopsHere ==
    /\ pc' = "done"
    /\ UNCHANGED <<outputVars, nDraws, nEstimations, scoringTable,
                   currentSample>>

\* C5 (as stated): in either variant, as soon as the computed sample size
\* is below nonMinimalSampleSize() the loop stops: nothing more is drawn,
\* estimated or scored and the current best is returned.
C5_BreakBelowFloor ==
    [][(AtIteration /\ LoopSampleSize < estimator.nonMinimalSampleSize) =>
          StopsHere]_vars

\* C6: in the single-match variant the sample buffer is allocated once by
\* the prologue, stays allocated while the call runs and has been freed
\* exactly once when the call has returned.
C6_BufferReleased ==
    (variant = "single" /\ pc # "idle") =>
        /\ nAlloc = 1
        /\ Running => nFree = 0
        /\ pc = "done" => nFree = 1

\* C6 witness: a single-match call in which the estimator failed has
\* returned.
C6_Witness ==
    /\ variant = "single"
    /\ pc = "done"
    /\ nFailures > 0
    /\ nFree = 1

\* The source indices of a list are pairwise distinct.
DistinctSources(list) ==
    \A i, j \in 1..Len(list) : i # j => Src(list[i]) # Src(list[j])

\* C7 (as stated): the list the multi-match variant returns has pairwise
\* distinct source indices, whatever the output list held on entry.
C7_DistinctSources ==
    (variant = "multi" /\ pc = "done") => DistinctSources(estimatedInliers)

\* C8: a default-constructed optimizer and the default settings agree on
\* max iterations 50 and sample size multiplier 7, and the defaults of
\* RANSACSettings are the documented ones.
C8_Defaults ==
    ~setterCalled =>
        /\ maxIterations = 50
        /\ sampleSizeMultiplier = 7
        /\ maxIterations = RANSACSettings.localOptimizationSettings.maxIterations
        /\ sampleSizeMultiplier =
              RANSACSettings.localOptimizationSettings.sampleSizeMultiplier
        /\ LocalOptimizationSettings.maxIterations = 50
        /\ LocalOptimizationSettings.sampleSizeMultiplier = 7
        /\ RANSACSettings.minIterations = 1000
        /\ RANSACSettings.maxIterations = 5000
        /\ RANSACSettings.minIterations <= RANSACSettings.maxIterations
        /\ RANSACSettings.coreNumber = 4
        /\ RANSACSettings.scoring = "MAGSAC"
        /\ RANSACSettings.sampler = "Uniform"
        /\ RANSACSettings.localOptimization = "NestedRANSAC"
        /\ RANSACSettings.finalOptimization = "IRLS"
        /\ RANSACSettings.terminationCriterion = "RANSAC"

\* C8 witness: the optimizer as constructed, no setter called.
C8_Witness ==
    /\ ~setterCalled
    /\ pc = "idle"
    /\ maxIterations = NestedRANSACOptimizerCtor.maxIterations

\* C9: every call of run() that has started returns, and on the way it
\* runs at most maxIterations iterations, asks the sampler at most
\* maxIterations times and estimates at most maxIterations times; with
\* maxIterations = 0 it returns what the initial rescoring of the incoming
\* model left in the outputs.
C9_Terminates ==
    /\ [](pc # "idle" =>
            /\ iteration <= maxIterations
            /\ nDraws <= maxIterations
            /\ nEstimations <= maxIterations
            /\ (pc = "done" /\ maxIterations = 0) =>
                  /\ estimatedModel = kModel
                  /\ estimatedScore = scoringTable[kModel].score
                  /\ estimatedInliers = RescoredInliers
                  /\ ScoredModels = {kModel})
    /\ (Running ~> pc = "done")

\* C9 witness: a call has used every iteration it was allowed, each with a
\* draw and an estimation, and has returned.
C9_Witness ==
    /\ pc = "done"
    /\ maxIterations = MaxIter
    /\ iteration = maxIterations
    /\ nDraws = maxIterations
    /\ nEstimations = maxIterations

\* C10 (as stated): from the initial rescoring on, the stored score and
\* inlier list are those the scoring produced for the stored model, and
\* the sampler was last initialized over the stored inlier list.
C10_OutputsOfOneModel ==
    pc # "idle" =>
        /\ Scored(estimatedModel)
        /\ estimatedScore = scoringTable[estimatedModel].score
        /\ estimatedInliers = scoringTable[estimatedModel].inliers
        /\ samplerRange = SubSize(Len(estimatedInliers), 1)

\* A step in which run() calls sampler.sample; the size it asks for is the
\* currentSampleSize of that iteration and the pool is estimatedInliers_.
SamplerAsked == nDraws' = nDraws + 1

\* C11 (as stated): whenever run() asks the sampler for a sample, the size
\* k it asks for is at least 1, at most |inliers| - 1 taken in size_t, and
\* smaller than the number of current inliers, so that the sample is a
\* strict subset of them; k is at most the capacity of the sample buffer;
\* and an iteration never gets its sample by copying all inliers.  This
\* for every size of the inlier set, 0 included.
C11_SamplerRequest ==
    [][/\ SamplerAsked =>
            /\ 1 <= currentSampleSize'
            /\ currentSampleSize' <= SubSize(Len(estimatedInliers), 1)
            /\ currentSampleSize' < Len(estimatedInliers)
            /\ currentSampleSize' <= kNonMinimalSampleSize
       /\ (pc = "loop" /\ pc' = "estimate") => SamplerAsked]_vars

====
